---- MODULE Spec2Model ----
(***************************************************************************)
(* Model of the CardioAI ECG interpreter backend: ECGInferenceService      *)
(* (backend/model_service.py), its filter helper                           *)
(* (backend/train/preprocess_data.py) and the synthetic signal of          *)
(* backend/demo_api.py; ECGImageProcessor (backend/image_processor.py);    *)
(* the HTTP endpoints of backend/main.py.                                  *)
(*                                                                         *)
(* Signals.  A signal is a record [len, x]: len samples indexed 0..len-1   *)
(* as in Python, x the map from the indices of its non-zero samples to     *)
(* their (integer) values; every other sample is 0.  Sample(sig, i) reads  *)
(* one sample.  All arithmetic on samples is exact: the comparison against *)
(* mean + 0.8*std is done on integers after clearing denominators and      *)
(* squaring, so floating-point rounding is not modelled.                   *)
(*                                                                         *)
(* External code.  scipy's butter/filtfilt and the torch classifier are    *)
(* not code of the repository.  The filter is modelled by what the         *)
(* pipeline relies on: it returns some signal of the same length as its    *)
(* input (or raises when the input is not longer than filtfilt's padding). *)
(* The classifier returns one (class, confidence) pair per window.         *)
(* scipy.signal.find_peaks is modelled step by step (local maxima, height  *)
(* filter, distance filter by priority); the order in which its argsort    *)
(* places equal heights is unspecified and is a nondeterministic choice.   *)
(*                                                                         *)
(* A beat window is stored by its extent [start, stop) in the filtered     *)
(* signal, computed as Python's slice does; its z-scored sample values     *)
(* (real numbers) are not stored.                                          *)
(*                                                                         *)
(* Images.  PIL's decoding and OpenCV's grayscale conversion, Otsu         *)
(* threshold and morphological opening are external: process_image is     *)
(* modelled from the binarized image `cleaned` on, a grid of w columns and *)
(* h rows with a set fg of foreground pixels <<x, y>> (any set: a superset *)
(* of what the opening can leave).  Column values are rationals with       *)
(* denominators up to h; they are stored multiplied by Scale(h).  The      *)
(* normalized and the resampled samples are stored as integer numerators   *)
(* over one common denominator.                                            *)
(*                                                                         *)
(* Endpoints (backend/main.py).  /api/analyze is modelled as one action    *)
(* per request (SpecApi) and, for concurrent requests, stage by stage      *)
(* (SpecRequests); /api/feedback with the wall clock and the feedback      *)
(* directory (SpecFeedback).  Each specification moves its own variables   *)
(* and leaves the others at their initial values.                          *)
(***************************************************************************)
EXTENDS Integers, Sequences, FiniteSets, TLC

VARIABLES
    op,                 \* the last call: "none", "predict", "preprocess_signal"
    outcome,            \* "none", "returned", "raised"
    raw_len,            \* len(raw_signal) of the last call
    fs,                 \* the fs argument of preprocess_signal in the last call
    filtered_ecg,       \* the filter's output in the last call, or NoSignal
    candidates,         \* local maxima that passed the height filter (inside find_peaks)
    peaks,              \* find_peaks' result, ascending
    segments,           \* the retained windows, in order of appending
    peak_indices,       \* the retained peaks, in order of appending
    predicted_classes,  \* the classifier's class per window
    confidence,         \* the classifier's confidence per window, in 1/1000
    report,             \* the dict predict returned, or NoReport
    calls,              \* the stages the last call ran
    target_points,      \* ECGImageProcessor.target_points
    cleaned,            \* process_image: the binarized, opened image, or NoImage
    signal_raw,         \* process_image: one value per column (scaled, see Scale)
    signal_resampled,   \* process_image: the returned samples, or NoSamples
    upload,             \* /api/analyze: the uploaded file [ext, body], or NoUpload
    rejected,           \* /api/analyze: status of the HTTPException raised in the try block, or 0
    status,             \* /api/analyze: status code of the response, or 0
    clock,              \* the wall clock, in ticks of 1 / TicksPerSecond second
    files,              \* data/feedback: file name (its timestamp) -> contents
    submitted,          \* /api/feedback: the number of submissions received
    acked,              \* /api/feedback: the submissions answered {"status": "success"}
    model,              \* inference_service.model: mode, parameters, BatchNorm running statistics
    loaded,             \* the value of model when __init__ returned (history variable)
    rq                  \* the /api/analyze requests in flight: the locals of each

svcVars == <<op, outcome, raw_len, fs, filtered_ecg, candidates, peaks, segments,
             peak_indices, predicted_classes, confidence, report, calls>>

imgVars == <<target_points, cleaned, signal_raw, signal_resampled>>

apiVars == <<upload, rejected, status>>

fbVars == <<clock, files, submitted, acked>>

reqVars == <<model, loaded, rq>>

(* The state of the endpoints of main.py *)
webVars == <<apiVars, fbVars, reqVars>>

vars == <<svcVars, imgVars, webVars>>

----------------------------------------------------------------------------
(* Program constants *)

WINDOW_SIZE == 360

DefaultFs == 360

MinSignalLen == 360

HighRiskPercent == 15

FiltfiltPadlen == 33

DemoSamplingRate == 250

DemoDuration == 10

DemoAmplitude == 1

DefaultTargetPoints == 2500

(* Bounds of the enumerated inputs *)

MaxSpikes == 2

MaxHeight == 2

TallHeight == 30

MaxAbnormal == 3

LongBeats == 20

MaxWidth == 3

MaxImgHeight == 3

MaxPixels == 2

MaxTarget == 3

(* /api/feedback: the clock runs for MaxClock ticks, TicksPerSecond ticks to *)
(* the second; at most MaxSubmissions submissions                            *)
MaxClock == 3

TicksPerSecond == 2

MaxSubmissions == 3

----------------------------------------------------------------------------
(* Helpers *)

Min(S) == CHOOSE m \in S : \A y \in S : m <= y

Max(S) == CHOOSE m \in S : \A y \in S : m >= y

Abs(a) == IF a < 0 THEN -a ELSE a

RECURSIVE SetToSeq(_)
SetToSeq(S) == IF S = {} THEN <<>>
               ELSE LET m == Min(S) IN <<m>> \o SetToSeq(S \ {m})

RECURSIVE SumOver(_, _)
SumOver(f, D) == IF D = {} THEN 0
                 ELSE LET d == CHOOSE d \in D : TRUE
                      IN f[d] + SumOver(f, D \ {d})

RECURSIVE SumSeq(_)
SumSeq(s) == IF s = <<>> THEN 0 ELSE Head(s) + SumSeq(Tail(s))

NoSignal == [len |-> -1, x |-> <<>>]

NoReport == [none |-> TRUE]

Sample(sig, i) == IF i \in DOMAIN sig.x THEN sig.x[i] ELSE 0

----------------------------------------------------------------------------
(* scipy.signal.find_peaks(filtered_ecg, height=threshold, distance=fs*0.4) *)

SignalSum(sig) == SumOver(sig.x, DOMAIN sig.x)

SignalSumSq(sig) == SumOver([i \in DOMAIN sig.x |-> sig.x[i] * sig.x[i]], DOMAIN sig.x)

(* v >= np.mean(sig) + 0.8 * np.std(sig).  With n = len, S = sum and Q = sum *)
(* of squares: mean = S/n, std = sqrt(n*Q - S*S)/n, so the test is           *)
(* 5*(n*v - S) >= 4*sqrt(n*Q - S*S), that is n*v - S >= 0 and                *)
(* (n*v - S)^2 >= ceil(16*(n*Q - S*S)/25).                                   *)
AtLeastThreshold(sig, v) ==
    LET n == sig.len
        S == SignalSum(sig)
        Q == SignalSumSq(sig)
        lhs == n * v - S
    IN  lhs >= 0 /\ lhs * lhs >= (16 * (n * Q - S * S) + 24) \div 25

(* The first index at or after j where the plateau starting at i ends (or the *)
(* last index of the signal).                                                 *)
RECURSIVE Ahead(_, _, _)
Ahead(sig, i, j) ==
    IF j < sig.len - 1 /\ Sample(sig, j) = Sample(sig, i)
    THEN Ahead(sig, i, j + 1)
    ELSE j

(* Midpoints of the plateaus strictly higher than both neighbours; the first *)
(* and the last sample are never a maximum.                                  *)
LocalMaxima(sig) ==
    { (i + Ahead(sig, i, i + 1) - 1) \div 2 :
        i \in { k \in 1 .. (sig.len - 2) :
                  /\ Sample(sig, k - 1) < Sample(sig, k)
                  /\ Sample(sig, Ahead(sig, k, k + 1)) < Sample(sig, k) } }

Candidates(sig) == { p \in LocalMaxima(sig) : AtLeastThreshold(sig, Sample(sig, p)) }

(* Mutant of Distance: a quarter of a second instead of 0.4 s *)
DistanceQuarter(f) == f \div 4

(* ceil(fs * 0.4) *)
Distance(f) == (2 * f + 4) \div 5

(* The distance filter: candidates are visited from the highest to the       *)
(* lowest; a visited candidate that is still flagged "keep" clears the flag  *)
(* of every other candidate closer than d.  todo holds the candidates still  *)
(* flagged and not yet visited.  Among equal heights the order of visit is   *)
(* any; one that conflicts with no other of its height is visited first      *)
(* (its visit changes nothing for its equals).                               *)
RECURSIVE SelectFrom(_, _, _, _)
SelectFrom(sig, kept, todo, d) ==
    IF todo = {} THEN {kept}
    ELSE LET h == Max({ Sample(sig, p) : p \in todo })
             tops == { p \in todo : Sample(sig, p) = h }
             free == { p \in tops : \A q \in tops \ {p} : Abs(p - q) >= d }
             pick == IF free # {} THEN {Min(free)} ELSE tops
         IN  UNION { SelectFrom(sig, kept \cup {p},
                                { q \in todo \ {p} : Abs(q - p) >= d }, d) :
                     p \in pick }

(* Mutant of SelectByPeakDistance: greedy from left to right, a candidate is *)
(* kept iff it is at least d after the last kept one.                       *)
RECURSIVE GreedyFrom(_, _, _, _)
GreedyFrom(s, i, kept, d) ==
    IF i > Len(s) THEN kept
    ELSE IF kept = {} \/ s[i] - Max(kept) >= d
         THEN GreedyFrom(s, i + 1, kept \cup {s[i]}, d)
         ELSE GreedyFrom(s, i + 1, kept, d)

SelectLeftToRight(sig, cands, d) == { GreedyFrom(SetToSeq(cands), 1, {}, d) }

SelectByPeakDistance(sig, cands, d) == SelectFrom(sig, {}, cands, d)

(* The possible results of find_peaks, each an ascending sequence; cands are *)
(* the local maxima that passed the height filter.                          *)
FindPeaks(sig, cands, f) ==
    { SetToSeq(K) : K \in SelectByPeakDistance(sig, cands, Distance(f)) }

----------------------------------------------------------------------------
(* preprocess_signal, step 3: the windows around the peaks *)

PyIndex(n, i) == IF i < 0 THEN (IF i + n < 0 THEN 0 ELSE i + n)
                 ELSE (IF i > n THEN n ELSE i)

(* a[left:right] on an array of n samples: where it starts and how long it is *)
PySlice(n, left, right) ==
    LET start == PyIndex(n, left)
        stop == PyIndex(n, right)
    IN  [start |-> start, len |-> IF stop > start THEN stop - start ELSE 0]

(* Mutants of WindowInBounds: the left bound unchecked; nothing checked *)
WindowRightOnly(left, right, n) == right < n

WindowUnchecked(left, right, n) == TRUE

WindowInBounds(left, right, n) == left >= 0 /\ right < n

RECURSIVE ExtractFrom(_, _, _, _)
ExtractFrom(sig, pk, i, acc) ==
    IF i > Len(pk) THEN acc
    ELSE LET peak == pk[i]
             left == peak - (WINDOW_SIZE \div 2)
             right == peak + (WINDOW_SIZE \div 2)
         IN  IF WindowInBounds(left, right, sig.len)
             THEN ExtractFrom(sig, pk, i + 1,
                      [segments |-> Append(acc.segments, PySlice(sig.len, left, right)),
                       peak_indices |-> Append(acc.peak_indices, peak)])
             ELSE ExtractFrom(sig, pk, i + 1, acc)

ExtractWindows(sig, pk) == ExtractFrom(sig, pk, 1, [segments |-> <<>>, peak_indices |-> <<>>])

----------------------------------------------------------------------------
(* The external classifier and the synthesis of the report (predict, step 4) *)

ConfLevels == {500, 875}

RECURSIVE SubsetsUpTo(_, _)
SubsetsUpTo(N, k) ==
    IF k = 0 THEN {{}}
    ELSE LET prev == SubsetsUpTo(N, k - 1)
         IN  prev \cup { s \cup {i} : s \in prev, i \in 1 .. N }

(* What the classifier may return for N windows: a class (0 Normal, 1         *)
(* Arrhythmia) and a confidence (the larger softmax probability, in 1/1000)   *)
(* per window.  Enumerated: at most MaxAbnormal abnormal beats, or all of     *)
(* them; one confidence for the normal and one for the abnormal beats.        *)
ClassifierOutputs(N) ==
    { [classes |-> [i \in 1 .. N |-> IF i \in ab THEN 1 ELSE 0],
       conf |-> [i \in 1 .. N |-> IF i \in ab THEN ca ELSE cn]] :
        ab \in SubsetsUpTo(N, MaxAbnormal) \cup {1 .. N},
        cn \in ConfLevels, ca \in ConfLevels }

NaN == -1

(* round(a / b, 0) as Python rounds: to the nearest, ties to even *)
RoundHalfEven(a, b) ==
    LET q == a \div b
        r == a % b
    IN  IF 2 * r > b THEN q + 1
        ELSE IF 2 * r < b THEN q
        ELSE IF q % 2 = 0 THEN q ELSE q + 1

(* round(np.mean(confidence) * 100, 1), in tenths of a percent *)
OverallConfidence(conf) ==
    IF Len(conf) = 0 THEN NaN ELSE RoundHalfEven(SumSeq(conf), Len(conf))

Arrhythmias(classes) == Cardinality({ i \in DOMAIN classes : classes[i] = 1 })

(* Mutant of HighRisk: >= for > *)
HighRiskInclusive(A, N) == 100 * A >= HighRiskPercent * N

(* (arrhythmias / total_beats) * 100 > 15 *)
HighRisk(A, N) == 100 * A > HighRiskPercent * N

RECURSIVE AnomalyFrom(_, _, _, _)
AnomalyFrom(pidx, classes, i, total) ==
    IF i > total THEN <<>>
    ELSE (IF classes[i] = 1 THEN <<pidx[i]>> ELSE <<>>)
         \o AnomalyFrom(pidx, classes, i + 1, total)

(* Mutant of AnomalyIndices: the position in the batch instead of the peak index *)
AnomalyBatchPositions(pidx, classes) ==
    AnomalyFrom([i \in 1 .. Len(classes) |-> i - 1], classes, 1, Len(classes))

(* [peak_indices[i] for i in range(total_beats) if predicted_classes[i] == 1] *)
AnomalyIndices(pidx, classes) == AnomalyFrom(pidx, classes, 1, Len(classes))

TooShortReport ==
    [confidence |-> 0, diagnosis |-> "Error: Signal too short.",
     riskLevel |-> "Unknown", abnormalBeats |-> 0, totalBeats |-> 0]

NoBeatsReport ==
    [confidence |-> 0, diagnosis |-> "Could not detect any clear heartbeats.",
     riskLevel |-> "Unknown", abnormalBeats |-> 0, totalBeats |-> 0]

Synthesize(classes, conf, pidx) ==
    LET total_beats == Len(classes)
        arrhythmias == Arrhythmias(classes)
        high == arrhythmias > 0 /\ HighRisk(arrhythmias, total_beats)
    IN  [totalBeats |-> total_beats,
         abnormalBeats |-> arrhythmias,
         diagnosis |-> IF arrhythmias > 0
                       THEN (IF high
                             THEN "Frequent Arrhythmia Detected. Please consult a cardiologist immediately."
                             ELSE "Occasional Ectopic/Abnormal beats detected.")
                       ELSE "Normal Sinus Rhythm",
         riskLevel |-> IF arrhythmias > 0
                       THEN (IF high THEN "High" ELSE "Medium")
                       ELSE "Low",
         confidence |-> OverallConfidence(conf),
         anomalyIndices |-> AnomalyIndices(pidx, classes)]

----------------------------------------------------------------------------
(* The inputs *)

Lens == {0, 20, 359, 360, 361, 400, 541}

Positions == {179, 180, 181, 219, 220, 323, 324, 360}

Heights == (1 .. MaxHeight) \cup {TallHeight}

MakeSignal(n, f) == [len |-> n, x |-> f]

(* Signals of n samples with at most MaxSpikes non-zero samples *)
SpikeSignals(n) ==
    { MakeSignal(n, f) :
        f \in UNION { [P -> Heights] :
                       P \in { Q \in SubsetsUpTo(0, 0) \cup
                                     { R \in SUBSET { p \in Positions : p < n } :
                                           Cardinality(R) <= MaxSpikes } : TRUE } } }

(* demo_api.py: 10 s at 250 Hz, one spike per second, all of one amplitude; *)
(* p0 is the position of the first spike.                                    *)
DemoLen == DemoDuration * DemoSamplingRate

DemoPhases == {1, 60, 69, 70, 179, 180, 248}

DemoSignal(p0) ==
    MakeSignal(DemoLen,
               [p \in { p0 + DemoSamplingRate * k : k \in 0 .. (DemoDuration - 1) }
                  |-> DemoAmplitude])

DemoSignals == { DemoSignal(p0) : p0 \in DemoPhases }

(* LongBeats spikes of one height, each exactly the minimum distance after   *)
(* the one before, every window inside the signal.                           *)
LongLen == (WINDOW_SIZE \div 2) + Distance(DefaultFs) * (LongBeats - 1) + (WINDOW_SIZE \div 2) + 1

LongSignal ==
    MakeSignal(LongLen,
               [p \in { (WINDOW_SIZE \div 2) + Distance(DefaultFs) * k : k \in 0 .. (LongBeats - 1) }
                  |-> 1])

RawLens == Lens \cup {DemoLen, LongLen}

FsValues == {DemoSamplingRate, DefaultFs}

Signals(n) ==
    (IF n \in Lens THEN SpikeSignals(n) ELSE {})
    \cup (IF n = DemoLen THEN DemoSignals ELSE {})
    \cup (IF n = LongLen THEN {LongSignal} ELSE {})

----------------------------------------------------------------------------
(* butter_bandpass_filter: scipy's filtfilt raises ValueError unless the     *)
(* input is longer than its padding; otherwise the output has the input's    *)
(* length.                                                                   *)

FiltfiltRaises(n) == n <= FiltfiltPadlen

FilterOutputs(n) == Signals(n)

----------------------------------------------------------------------------
(* ECGImageProcessor.process_image, from the binarized image on *)

NoImage == [w |-> 0, h |-> 0, fg |-> {}]

NoSamples == [den |-> 0, nums |-> <<>>]

RECURSIVE Factorial(_)
Factorial(n) == IF n <= 1 THEN 1 ELSE n * Factorial(n - 1)

(* Column values of an image of h rows are stored multiplied by Scale(h): *)
(* every mean of row indices and h / 2.0 become integers.                 *)
Scale(h) == 2 * Factorial(h)

RECURSIVE SumSet(_)
SumSet(S) == IF S = {} THEN 0
             ELSE LET e == CHOOSE e \in S : TRUE IN e + SumSet(S \ {e})

(* np.where(column > 128)[0]: the foreground rows of column x *)
LinePixels(img, x) == { y \in 0 .. (img.h - 1) : <<x, y>> \in img.fg }

(* Mutant of ColumnValue: 0 for a column without foreground *)
ColumnValueZero(img, x, sofar) ==
    LET line_pixels == LinePixels(img, x)
    IN  IF line_pixels # {}
        THEN Scale(img.h) * img.h
             - (Scale(img.h) * SumSet(line_pixels)) \div Cardinality(line_pixels)
        ELSE 0

(* Mutant of ColumnValue: the mean row itself, the y-axis not inverted *)
ColumnValueNotInverted(img, x, sofar) ==
    LET line_pixels == LinePixels(img, x)
    IN  IF line_pixels # {}
        THEN (Scale(img.h) * SumSet(line_pixels)) \div Cardinality(line_pixels)
        ELSE IF Len(sofar) > 0 THEN sofar[Len(sofar)]
        ELSE (Scale(img.h) * img.h) \div 2

(* The value appended for column x, sofar being signal_raw up to here:     *)
(* height - np.mean(line_pixels), or signal_raw[-1], or height / 2.0       *)
ColumnValue(img, x, sofar) ==
    LET line_pixels == LinePixels(img, x)
    IN  IF line_pixels # {}
        THEN Scale(img.h) * img.h
             - (Scale(img.h) * SumSet(line_pixels)) \div Cardinality(line_pixels)
        ELSE IF Len(sofar) > 0 THEN sofar[Len(sofar)]
        ELSE (Scale(img.h) * img.h) \div 2

RECURSIVE ScanFrom(_, _, _)
ScanFrom(img, x, sofar) ==
    IF x >= img.w THEN sofar
    ELSE ScanFrom(img, x + 1, Append(sofar, ColumnValue(img, x, sofar)))

(* for x in range(width): ... *)
ScanColumns(img) == ScanFrom(img, 0, <<>>)

Ptp(raw) == Max({ raw[i] : i \in 1 .. Len(raw) }) - Min({ raw[i] : i \in 1 .. Len(raw) })

(* Mutant of NormalizedNum: the final - 1 forgotten *)
NormalizedNumNoShift(v, lo, ptp) == 2 * (v - lo)

(* 2 * ((v - min) / ptp) - 1, as a numerator over ptp *)
NormalizedNum(v, lo, ptp) == 2 * (v - lo) - ptp

(* Min-max normalization, or the sequence itself when its range is zero; *)
(* scale is the factor the raw values are stored with.                   *)
Normalize(raw, scale) ==
    LET ptp == Ptp(raw)
        lo == Min({ raw[i] : i \in 1 .. Len(raw) })
    IN  IF ptp # 0
        THEN [den |-> ptp, nums |-> [i \in 1 .. Len(raw) |-> NormalizedNum(raw[i], lo, ptp)]]
        ELSE [den |-> scale, nums |-> raw]

(* Mutant of ResampleLen: linspace without its end point *)
ResampleLenShort(t) == t - 1

(* len(np.linspace(0, 1, t)) *)
ResampleLen(t) == t

(* np.interp(np.linspace(0, 1, t), np.linspace(0, 1, len(y)), y): sample j *)
(* lies at j * (W - 1) / (t - 1) on the axis of the W knots.               *)
Resample(norm, t) ==
    LET W == Len(norm.nums)
        m == IF t > 1 THEN t - 1 ELSE 1
    IN  [den |-> norm.den * m,
         nums |-> [k \in 1 .. ResampleLen(t) |->
                     LET pos == (k - 1) * (W - 1)
                         i == pos \div m
                         r == pos % m
                     IN  IF r = 0 THEN norm.nums[i + 1] * m
                         ELSE norm.nums[i + 1] * (m - r) + norm.nums[i + 2] * r]]

(* The binarized images: up to MaxWidth columns, MaxImgHeight rows and *)
(* MaxPixels foreground pixels                                         *)
RECURSIVE PixelSetsUpTo(_, _)
PixelSetsUpTo(grid, k) ==
    IF k = 0 THEN {{}}
    ELSE LET prev == PixelSetsUpTo(grid, k - 1)
         IN  prev \cup { s \cup {c} : s \in prev, c \in grid }

Images ==
    UNION { { [w |-> W, h |-> H, fg |-> F] :
                F \in PixelSetsUpTo((0 .. (W - 1)) \X (0 .. (H - 1)), MaxPixels) } :
            W \in 1 .. MaxWidth, H \in 1 .. MaxImgHeight }

TargetPoints == (1 .. MaxTarget) \cup {DefaultTargetPoints}

ImageResult(img, raw, out) ==
    /\ cleaned' = img
    /\ signal_raw' = raw
    /\ signal_resampled' = out
    /\ UNCHANGED target_points

InitImage ==
    /\ target_points = DefaultTargetPoints
    /\ cleaned = NoImage
    /\ signal_raw = <<>>
    /\ signal_resampled = NoSamples

----------------------------------------------------------------------------
(* The operations *)

(* Mutant of TooShort: off by one *)
TooShortOffByOne(n) == n < MinSignalLen - 1

TooShort(n) == n < MinSignalLen

(* Mutant of NoBeats: the empty batch is not caught *)
NoBeatsNever(X) == Len(X) < 0

NoBeats(X) == Len(X) = 0

Result(o, out, n, f, sig, cands, pk, segs, pidx, cls, conf, rep, cl) ==
    /\ op' = o
    /\ outcome' = out
    /\ raw_len' = n
    /\ fs' = f
    /\ filtered_ecg' = sig
    /\ candidates' = cands
    /\ peaks' = pk
    /\ segments' = segs
    /\ peak_indices' = pidx
    /\ predicted_classes' = cls
    /\ confidence' = conf
    /\ report' = rep
    /\ calls' = cl

InitService ==
    /\ op = "none"
    /\ outcome = "none"
    /\ raw_len = 0
    /\ fs = 0
    /\ filtered_ecg = NoSignal
    /\ candidates = {}
    /\ peaks = <<>>
    /\ segments = <<>>
    /\ peak_indices = <<>>
    /\ predicted_classes = <<>>
    /\ confidence = <<>>
    /\ report = NoReport
    /\ calls = {}

NoUpload == [ext |-> "", body |-> "none"]

InitApi ==
    /\ upload = NoUpload
    /\ rejected = 0
    /\ status = 0

(* FEEDBACK_DIR exists and is empty *)
InitFeedback ==
    /\ clock = 0
    /\ files = <<>>
    /\ submitted = 0
    /\ acked = {}

(* The classifier as the pipeline sees it.  A window is given by the height *)
(* of its peak; the parameters map it to a class; in eval mode BatchNorm    *)
(* normalizes with its running statistics, so they are part of the function *)
(* computed.                                                                *)

(* Mutant of ModelTraining: nn.Module's default mode, eval() not called *)
ModelTrainingDefault == TRUE

(* ECGInferenceService.__init__ ends with self.model.eval() *)
ModelTraining == FALSE

WindowKeys == 1 .. MaxHeight

ModelStates ==
    [training : {ModelTraining}, weights : [WindowKeys -> {0, 1}], running : {0, 1}]

(* Two requests in flight at once *)
Requests == {1, 2}

NoInput == [kind |-> "none", filtered |-> NoSignal]

NoRequest ==
    [pc |-> "none", input |-> NoInput, n |-> 0, filtered_ecg |-> NoSignal, X |-> <<>>,
     peak_indices |-> <<>>, classes |-> <<>>, conf |-> <<>>, report |-> NoReport,
     overlapped |-> FALSE]

(* One service, no request in flight *)
InitRequestsIdle ==
    /\ model = CHOOSE m \in ModelStates : TRUE
    /\ loaded = model
    /\ rq = [r \in Requests |-> NoRequest]

InitWeb == InitApi /\ InitFeedback /\ InitRequestsIdle

Init == InitService /\ InitImage /\ InitWeb

(* The service keeps nothing between calls (its only fields, model and      *)
(* device, are set in __init__ and never written again): a call starts from *)
(* the idle state, and what the variables hold of it is dropped when the    *)
(* caller has taken the result.                                             *)
Idle == op = "none"

(* ECGInferenceService.preprocess_signal(raw_signal, fs), called directly *)
PreprocessSignal ==
    /\ Idle
    /\ \E n \in RawLens, f \in FsValues :
        IF FiltfiltRaises(n)
        THEN Result("preprocess_signal", "raised", n, f, NoSignal, {}, <<>>, <<>>, <<>>,
                    <<>>, <<>>, NoReport, {"filter"})
        ELSE \E sig \in FilterOutputs(n) :
               \E cands \in {Candidates(sig)} :
                   \E pk \in FindPeaks(sig, cands, f) :
                     LET w == ExtractWindows(sig, pk)
                     IN  Result("preprocess_signal", "returned", n, f, sig, cands, pk,
                                w.segments, w.peak_indices, <<>>, <<>>, NoReport,
                                {"filter", "segment"})
    /\ UNCHANGED <<imgVars, webVars>>

(* The body of ECGInferenceService.predict on a signal of n samples *)
PredictCall(n) ==
    IF TooShort(n)
    THEN Result("predict", "returned", n, 0, NoSignal, {}, <<>>, <<>>, <<>>,
                <<>>, <<>>, TooShortReport, {})
    ELSE IF FiltfiltRaises(n)
    THEN Result("predict", "raised", n, DefaultFs, NoSignal, {}, <<>>, <<>>, <<>>,
                <<>>, <<>>, NoReport, {"filter"})
    ELSE \E sig \in FilterOutputs(n) :
           \E cands \in {Candidates(sig)} :
               \E pk \in FindPeaks(sig, cands, DefaultFs) :
                 LET w == ExtractWindows(sig, pk)
                 IN  IF NoBeats(w.segments)
                     THEN Result("predict", "returned", n, DefaultFs, sig, cands, pk,
                                 w.segments, w.peak_indices, <<>>, <<>>, NoBeatsReport,
                                 {"filter", "segment"})
                     ELSE \E c \in ClassifierOutputs(Len(w.segments)) :
                            Result("predict", "returned", n, DefaultFs, sig, cands,
                                   pk, w.segments, w.peak_indices, c.classes, c.conf,
                                   Synthesize(c.classes, c.conf, w.peak_indices),
                                   {"filter", "segment", "classify"})

(* ECGInferenceService.predict(raw_signal) *)
Predict ==
    /\ Idle
    /\ \E n \in RawLens : PredictCall(n)
    /\ UNCHANGED <<imgVars, webVars>>

(* The caller takes the returned value (or the exception) *)
Return ==
    /\ ~Idle
    /\ Result("none", "none", 0, 0, NoSignal, {}, <<>>, <<>>, <<>>, <<>>, <<>>, NoReport, {})
    /\ UNCHANGED <<imgVars, webVars>>

Next == Predict \/ PreprocessSignal \/ Return

----------------------------------------------------------------------------
(* ECGImageProcessor on its own: constructed with some target_points, then *)
(* process_image called on one image after the other.                      *)

InitProcessor ==
    /\ InitService
    /\ target_points \in TargetPoints
    /\ cleaned = NoImage
    /\ signal_raw = <<>>
    /\ signal_resampled = NoSamples
    /\ InitWeb

(* process_image(file_bytes) on bytes that decode to an image; op records *)
(* the call as for the service.                                           *)
ProcessImage ==
    /\ Idle
    /\ \E img \in Images :
         \E raw \in {ScanColumns(img)} :
           /\ ImageResult(img, raw, Resample(Normalize(raw, Scale(img.h)), target_points))
           /\ Result("process_image", "returned", 0, 0, NoSignal, {}, <<>>, <<>>, <<>>,
                     <<>>, <<>>, NoReport, {"scan", "normalize", "resample"})
    /\ UNCHANGED webVars

(* process_image on bytes PIL cannot decode: Image.open raises *)
ProcessUndecodable ==
    /\ Idle
    /\ ImageResult(NoImage, <<>>, NoSamples)
    /\ Result("process_image", "raised", 0, 0, NoSignal, {}, <<>>, <<>>, <<>>,
              <<>>, <<>>, NoReport, {})
    /\ UNCHANGED webVars

ReturnImage ==
    /\ ~Idle
    /\ ImageResult(NoImage, <<>>, NoSamples)
    /\ Result("none", "none", 0, 0, NoSignal, {}, <<>>, <<>>, <<>>, <<>>, <<>>, NoReport, {})
    /\ UNCHANGED webVars

NextImage == ProcessImage \/ ProcessUndecodable \/ ReturnImage

SpecImage == InitProcessor /\ [][NextImage]_vars

----------------------------------------------------------------------------
(* POST /api/analyze (main.py, analyze_ecg) on the two module-level objects *)
(* inference_service and image_processor.  An upload is the final extension *)
(* of its filename (the text from the last dot on, which decides every      *)
(* endswith test of the handler) and the kind of its contents.              *)

Extensions == {".json", ".JSON", ".png", ".PNG", ".jpeg", ".txt", ""}

(* str.lower() on the extensions above *)
Lower(e) == CASE e = ".JSON" -> ".json"
              [] e = ".PNG" -> ".png"
              [] OTHER -> e

(* file.filename.endswith('.json'): case-sensitive *)
IsJson(e) == e = ".json"

(* file.filename.lower().endswith(('.png', '.jpg', '.jpeg', '.webp')) *)
IsImage(e) == Lower(e) \in {".png", ".jpg", ".jpeg", ".webp"}

(* Contents: a JSON object with a 'signal' list, a JSON object without  *)
(* the key, the bytes of an image, or bytes that are neither JSON nor   *)
(* an image.                                                            *)
Bodies == {"json_signal", "json_no_signal", "image", "garbage"}

Uploads == [ext : Extensions, body : Bodies]

(* The images uploaded: a single pixel, dark or light *)
ApiImages == { img \in Images : img.w = 1 /\ img.h = 1 }

(* except Exception as e: raise HTTPException(status_code=500, detail=str(e)). *)
(* HTTPException is a subclass of Exception, so the handler's own              *)
(* HTTPException(400) raised inside the try block is caught here too.          *)
ExceptException(code) == 500

(* The response when the try block raised; code is the status of the *)
(* HTTPException raised by the handler itself, 0 for any other error *)
Raise(u, code) ==
    /\ upload' = u
    /\ rejected' = code
    /\ status' = ExceptException(code)

(* results = inference_service.predict(signal); return results *)
RunInference(u, n) ==
    /\ PredictCall(n)
    /\ upload' = u
    /\ rejected' = 0
    /\ status' = IF outcome' = "raised" THEN ExceptException(0) ELSE 200

Responded == status # 0

AnalyzeEcg ==
    /\ Idle
    /\ ~Responded
    /\ \E u \in Uploads :
         IF IsJson(u.ext)
         THEN IF u.body \in {"image", "garbage"}
              THEN \* json.loads raises
                   Raise(u, 0) /\ UNCHANGED <<svcVars, imgVars>>
              ELSE IF u.body = "json_no_signal"
              THEN Raise(u, 400) /\ UNCHANGED <<svcVars, imgVars>>
              ELSE (\E n \in RawLens : RunInference(u, n)) /\ UNCHANGED imgVars
         ELSE IF IsImage(u.ext)
         THEN IF u.body # "image"
              THEN \* Image.open raises
                   Raise(u, 0) /\ UNCHANGED <<svcVars, imgVars>>
              ELSE \E img \in ApiImages :
                     \E raw \in {ScanColumns(img)} :
                       \E out \in {Resample(Normalize(raw, Scale(img.h)), target_points)} :
                         /\ ImageResult(img, raw, out)
                         /\ RunInference(u, Len(out.nums))
         ELSE Raise(u, 400) /\ UNCHANGED <<svcVars, imgVars>>
    /\ UNCHANGED <<fbVars, reqVars>>

(* The response has been sent; nothing of the request is kept *)
ReturnApi ==
    /\ Responded
    /\ upload' = NoUpload
    /\ rejected' = 0
    /\ status' = 0
    /\ ImageResult(NoImage, <<>>, NoSamples)
    /\ Result("none", "none", 0, 0, NoSignal, {}, <<>>, <<>>, <<>>, <<>>, <<>>, NoReport, {})
    /\ UNCHANGED <<fbVars, reqVars>>

NextApi == AnalyzeEcg \/ ReturnApi

SpecApi == Init /\ [][NextApi]_vars

----------------------------------------------------------------------------
(* POST /api/feedback (main.py, receive_feedback).  The handler has no     *)
(* await: it runs from its first to its last statement without another     *)
(* request in between.  A submission is numbered in order of arrival; the  *)
(* file written holds the number with the feedback, so that two equal      *)
(* feedbacks are told apart.                                               *)

Diagnoses == {"Normal Sinus Rhythm", "Arrhythmia Detected"}

(* ClinicianFeedback (notes left at its default) *)
Feedbacks == [predicted_diagnosis : Diagnoses, true_diagnosis : Diagnoses]

(* datetime.now().strftime("%Y%m%d_%H%M%S"): the clock cut to whole seconds *)
Timestamp(c) == c \div TicksPerSecond

(* open(filepath, "w") followed by f.write(text): the file is created or *)
(* truncated, then holds text alone                                      *)
WriteFile(fs0, name, text) ==
    [n \in (DOMAIN fs0) \cup {name} |-> IF n = name THEN text ELSE fs0[n]]

Truncated == [id |-> 0]

ReceiveFeedback ==
    /\ submitted < MaxSubmissions
    /\ \E feedback \in Feedbacks, result \in {"success", "open raised", "write raised"} :
         LET id == submitted + 1
             filename == Timestamp(clock)
         IN  /\ submitted' = id
             /\ files' = CASE result = "success" ->
                                WriteFile(files, filename, [id |-> id, feedback |-> feedback])
                           [] result = "write raised" ->
                                WriteFile(files, filename, Truncated)
                           [] OTHER -> files
             /\ acked' = IF result = "success" THEN acked \cup {id} ELSE acked
    /\ UNCHANGED <<clock, svcVars, imgVars, apiVars, reqVars>>

Tick ==
    /\ clock < MaxClock
    /\ clock' = clock + 1
    /\ UNCHANGED <<files, submitted, acked, svcVars, imgVars, apiVars, reqVars>>

NextFeedback == ReceiveFeedback \/ Tick

SpecFeedback == Init /\ [][NextFeedback]_vars

----------------------------------------------------------------------------
(* Concurrent /api/analyze requests on the one inference_service and the   *)
(* one image_processor.  The handler's only await is file.read(); here a   *)
(* request may be overtaken between any two stages of the pipeline, which  *)
(* includes every schedule of the event loop.  The locals of a request are *)
(* rq[r]; model and target_points are the fields the stages read from the  *)
(* shared objects.  The filter and find_peaks are functions of the signal: *)
(* an upload is given with the filter's output on its signal.              *)

ReqSignals ==
    {MakeSignal(0, <<>>), MakeSignal(MinSignalLen + Distance(DefaultFs), <<>>)}
    \cup { MakeSignal(WINDOW_SIZE + 1, [p \in {WINDOW_SIZE \div 2} |-> h]) : h \in WindowKeys }

ReqInputs ==
    { [kind |-> "json", filtered |-> s] : s \in ReqSignals }
    \cup { [kind |-> "image", filtered |-> DemoSignal(Max(DemoPhases))] }

(* len(signal): of the uploaded list, or of process_image's result *)
SignalLen(input, t) == IF input.kind = "json" THEN input.filtered.len ELSE ResampleLen(t)

(* butter_bandpass_filter on the request's signal; on a signal of another *)
(* length, a flat signal of that length                                   *)
FilterOn(input, n) == IF n = input.filtered.len THEN input.filtered ELSE MakeSignal(n, <<>>)

(* preprocess_signal from the filtered signal on *)
SegmentsOf(sig) ==
    ExtractWindows(sig, CHOOSE pk \in FindPeaks(sig, Candidates(sig), DefaultFs) : TRUE)

(* The windows, each given by the height of its peak *)
WindowsOf(sig, pidx) == [i \in 1 .. Len(pidx) |-> Sample(sig, pidx[i])]

(* outputs = self.model(X_tensor); softmax; torch.max *)
Forward(m, X) ==
    LET class(i) == (m.weights[X[i]] + m.running) % 2
    IN  [classes |-> [i \in 1 .. Len(X) |-> class(i)],
         conf |-> [i \in 1 .. Len(X) |-> IF class(i) = 1 THEN Max(ConfLevels)
                                         ELSE Min(ConfLevels)]]

(* The module after a forward pass: in training mode BatchNorm updates its *)
(* running statistics (torch.no_grad does not prevent it), in eval mode    *)
(* nothing is written                                                      *)
AfterForward(m) == IF m.training THEN [m EXCEPT !.running = 1 - @] ELSE m

(* The report of a request handled with no other request in flight, on a *)
(* service in state m and a processor with target_points = t             *)
ReportAlone(input, m, t) ==
    LET n == SignalLen(input, t)
    IN  IF TooShort(n) THEN TooShortReport
        ELSE LET sig == FilterOn(input, n)
                 w == SegmentsOf(sig)
             IN  IF NoBeats(w.segments) THEN NoBeatsReport
                 ELSE LET c == Forward(m, WindowsOf(sig, w.peak_indices))
                      IN  Synthesize(c.classes, c.conf, w.peak_indices)

InFlight(q) == q.pc \notin {"none", "done"}

(* Request r takes a step to q: every other request in flight has been *)
(* overtaken                                                           *)
Step(r, q) ==
    rq' = [o \in Requests |->
             IF o = r THEN q
             ELSE IF InFlight(rq[o]) THEN [rq[o] EXCEPT !.overlapped = TRUE]
             ELSE rq[o]]

(* contents = await file.read() *)
Receive(r) ==
    /\ rq[r].pc = "none"
    /\ \E input \in ReqInputs : Step(r, [NoRequest EXCEPT !.pc = "read", !.input = input])
    /\ UNCHANGED <<model, loaded, svcVars, imgVars, apiVars, fbVars>>

(* signal = ecg_data['signal'], or image_processor.process_image(contents) *)
Decode(r) ==
    /\ rq[r].pc = "read"
    /\ Step(r, [rq[r] EXCEPT !.pc = "signal", !.n = SignalLen(rq[r].input, target_points)])
    /\ UNCHANGED <<model, loaded, svcVars, imgVars, apiVars, fbVars>>

(* predict up to the classifier: length test, preprocess_signal, no-beats test *)
Segment(r) ==
    /\ rq[r].pc = "signal"
    /\ IF TooShort(rq[r].n)
       THEN Step(r, [rq[r] EXCEPT !.pc = "done", !.report = TooShortReport])
       ELSE LET sig == FilterOn(rq[r].input, rq[r].n)
                w == SegmentsOf(sig)
            IN  IF NoBeats(w.segments)
                THEN Step(r, [rq[r] EXCEPT !.pc = "done", !.filtered_ecg = sig,
                                           !.report = NoBeatsReport])
                ELSE Step(r, [rq[r] EXCEPT !.pc = "segmented", !.filtered_ecg = sig,
                                           !.X = WindowsOf(sig, w.peak_indices),
                                           !.peak_indices = w.peak_indices])
    /\ UNCHANGED <<model, loaded, svcVars, imgVars, apiVars, fbVars>>

(* with torch.no_grad(): outputs = self.model(X_tensor) ... *)
Classify(r) ==
    /\ rq[r].pc = "segmented"
    /\ LET c == Forward(model, rq[r].X)
       IN  Step(r, [rq[r] EXCEPT !.pc = "classified", !.classes = c.classes, !.conf = c.conf])
    /\ model' = AfterForward(model)
    /\ UNCHANGED <<loaded, svcVars, imgVars, apiVars, fbVars>>

(* predict, step 4, and return results *)
SynthesizeReport(r) ==
    /\ rq[r].pc = "classified"
    /\ Step(r, [rq[r] EXCEPT !.pc = "done",
                             !.report = Synthesize(rq[r].classes, rq[r].conf,
                                                   rq[r].peak_indices)])
    /\ UNCHANGED <<model, loaded, svcVars, imgVars, apiVars, fbVars>>

(* The response has been sent *)
Respond(r) ==
    /\ rq[r].pc = "done"
    /\ Step(r, NoRequest)
    /\ UNCHANGED <<model, loaded, svcVars, imgVars, apiVars, fbVars>>

NextRequests ==
    \E r \in Requests :
        \/ Receive(r)
        \/ Decode(r)
        \/ Segment(r)
        \/ Classify(r)
        \/ SynthesizeReport(r)
        \/ Respond(r)

(* The service starts with any parameters *)
InitRequests ==
    /\ InitService
    /\ InitImage
    /\ InitApi
    /\ InitFeedback
    /\ model \in ModelStates
    /\ loaded = model
    /\ rq = [r \in Requests |-> NoRequest]

SpecRequests == InitRequests /\ [][NextRequests]_vars

Spec == Init /\ [][Next]_vars

----------------------------------------------------------------------------
(* The properties *)

Returned(o) == op = o /\ outcome = "returned"

Synthesized == Returned("predict") /\ "classify" \in calls

Segmented == op # "none" /\ outcome = "returned" /\ "segment" \in calls

SixFields == {"totalBeats", "abnormalBeats", "diagnosis", "riskLevel", "confidence",
              "anomalyIndices"}

IsSequence(s) == DOMAIN s = 1 .. Len(s)

AbnormalCount == Cardinality({ i \in 1 .. Len(predicted_classes) : predicted_classes[i] = 1 })

(* C1: for a non-empty batch of N classifications with A of them Arrhythmia, *)
(* predict reports Normal Sinus Rhythm / Low when A = 0, the occasional      *)
(* message / Medium when A > 0 and 100*A <= 15*N, and the frequent message / *)
(* High when 100*A > 15*N.                                                   *)
C1_DecisionTable ==
    Synthesized =>
        LET N == Len(predicted_classes)
            A == AbnormalCount
        IN  /\ N > 0
            /\ A = 0 =>
                 /\ report.diagnosis = "Normal Sinus Rhythm"
                 /\ report.riskLevel = "Low"
            /\ (A > 0 /\ 100 * A <= 15 * N) =>
                 /\ report.diagnosis = "Occasional Ectopic/Abnormal beats detected."
                 /\ report.riskLevel = "Medium"
            /\ (A > 0 /\ 100 * A > 15 * N) =>
                 /\ report.diagnosis =
                      "Frequent Arrhythmia Detected. Please consult a cardiologist immediately."
                 /\ report.riskLevel = "High"

(* C1 witness: exactly 15% abnormal (3 of 20) reported Medium *)
C1_Witness ==
    /\ Synthesized
    /\ Len(predicted_classes) = 20
    /\ AbnormalCount = 3
    /\ report.riskLevel = "Medium"

(* C2: every report predict returns, on every return path, has all six     *)
(* fields, riskLevel one of Low, Medium, High, Unknown, and anomalyIndices *)
(* a list.                                                                 *)
C2_AllSixFields ==
    Returned("predict") =>
        /\ DOMAIN report = SixFields
        /\ report.riskLevel \in {"Low", "Medium", "High", "Unknown"}
        /\ IsSequence(report.anomalyIndices)

(* C3: for a signal of fewer than 360 samples (the empty one included)      *)
(* predict returns the too-short sentinel as a value, and runs neither the  *)
(* filter nor the segmenter nor the classifier.                             *)
C3_TooShortSentinel ==
    (op = "predict" /\ raw_len < 360) =>
        /\ outcome = "returned"
        /\ report.totalBeats = 0
        /\ report.abnormalBeats = 0
        /\ report.riskLevel = "Unknown"
        /\ report.diagnosis = "Error: Signal too short."
        /\ calls = {}

(* C3 witness: predict has returned for a signal of 359 samples *)
C3_Witness ==
    /\ Returned("predict")
    /\ raw_len = 359
    /\ report.totalBeats = 0

(* C4: for a signal of at least 360 samples whose segmentation retains no   *)
(* window, predict returns the no-beats sentinel and the classifier is not  *)
(* invoked; the synthesis is reached only with N > 0 beats.                 *)
C4_NoBeatsSentinel ==
    /\ (Returned("predict") /\ raw_len >= 360 /\ Len(segments) = 0) =>
           /\ report.totalBeats = 0
           /\ report.abnormalBeats = 0
           /\ report.riskLevel = "Unknown"
           /\ report.diagnosis = "Could not detect any clear heartbeats."
           /\ "classify" \notin calls
    /\ (op = "predict" /\ "classify" \in calls) =>
           /\ Len(segments) > 0
           /\ Len(predicted_classes) > 0
           /\ report.totalBeats > 0

(* C4 witness: peaks were found and every one was dropped by the bounds check *)
C4_Witness ==
    /\ Returned("predict")
    /\ raw_len >= 360
    /\ Len(peaks) > 0
    /\ Len(segments) = 0
    /\ report.riskLevel = "Unknown"

(* The hypothesis of C5 on the state: 2500 samples, the candidates are ten  *)
(* spikes of one height spaced exactly 250 samples apart, and all of them   *)
(* are detected.                                                            *)
TenSpikes ==
    /\ Returned("predict")
    /\ raw_len = 2500
    /\ Len(peaks) = 10
    /\ candidates = { peaks[i] : i \in 1 .. 10 }
    /\ \A i \in 1 .. 9 : peaks[i + 1] - peaks[i] = 250
    /\ \A i \in 1 .. 10 : Sample(filtered_ecg, peaks[i]) = Sample(filtered_ecg, peaks[1])

AllNormal == \A i \in 1 .. Len(predicted_classes) : predicted_classes[i] = 0

(* C5 as stated: for a 2500-sample signal whose only maxima above the       *)
(* threshold are 10 identical spikes 250 samples apart, predict reports     *)
(* totalBeats = 10, and Normal Sinus Rhythm / Low when every beat is Normal. *)
C5_TenBeats ==
    TenSpikes =>
        /\ report.totalBeats = 10
        /\ AllNormal => (report.diagnosis = "Normal Sinus Rhythm" /\ report.riskLevel = "Low")

(* C5 amended: for such a signal predict reports as totalBeats the number   *)
(* of spikes p with 180 <= p and p + 180 < 2500, which is 8 or 9 and never  *)
(* 10, and Normal Sinus Rhythm / Low when every retained beat is Normal.    *)
C5_NineBeats ==
    TenSpikes =>
        /\ report.totalBeats =
             Cardinality({ i \in 1 .. 10 : peaks[i] >= 180 /\ peaks[i] + 180 < 2500 })
        /\ report.totalBeats \in {8, 9}
        /\ AllNormal => (report.diagnosis = "Normal Sinus Rhythm" /\ report.riskLevel = "Low")

(* C5 witness: the demo signal (first spike at 60), 9 beats, all Normal *)
C5_Witness ==
    /\ TenSpikes
    /\ peaks[1] = 60
    /\ report.totalBeats = 9
    /\ AllNormal
    /\ report.riskLevel = "Low"

StrictlyAscending(s) == \A i \in 1 .. (Len(s) - 1) : s[i] < s[i + 1]

Elems(s) == { s[i] : i \in 1 .. Len(s) }

(* C6: in every synthesized report totalBeats is the number of retained     *)
(* windows, 0 <= abnormalBeats <= totalBeats, and anomalyIndices is the     *)
(* list of the peak indices (sample coordinates of the signal) of the beats *)
(* classified Arrhythmia: strictly ascending, abnormalBeats long, with no   *)
(* index of a Normal beat.                                                  *)
C6_ReportCounts ==
    Synthesized =>
        /\ report.totalBeats = Len(segments)
        /\ 0 <= report.abnormalBeats /\ report.abnormalBeats <= report.totalBeats
        /\ report.abnormalBeats = AbnormalCount
        /\ StrictlyAscending(report.anomalyIndices)
        /\ Len(report.anomalyIndices) = report.abnormalBeats
        /\ Elems(report.anomalyIndices) =
             { peak_indices[i] : i \in { k \in 1 .. Len(peak_indices) : predicted_classes[k] = 1 } }
        /\ \A i \in 1 .. Len(peak_indices) :
             predicted_classes[i] = 0 => peak_indices[i] \notin Elems(report.anomalyIndices)
        /\ Elems(report.anomalyIndices) \subseteq (Elems(peaks) \cap (0 .. (raw_len - 1)))

(* C6 witness: twenty beats of which the 2nd, the 5th and the last are     *)
(* Arrhythmia                                                              *)
C6_Witness ==
    /\ Synthesized
    /\ report.totalBeats = 20
    /\ { i \in 1 .. 20 : predicted_classes[i] = 1 } = {2, 5, 20}
    /\ report.anomalyIndices = <<peak_indices[2], peak_indices[5], peak_indices[20]>>

(* C7: the peaks the segmenter finds are strictly increasing, lie within   *)
(* the signal, and consecutive ones differ by at least 0.4 * fs samples.   *)
C7_PeakSet ==
    Segmented =>
        /\ \A i \in 1 .. Len(peaks) : 0 <= peaks[i] /\ peaks[i] < filtered_ecg.len
        /\ \A i \in 1 .. (Len(peaks) - 1) :
             /\ peaks[i] < peaks[i + 1]
             /\ 5 * (peaks[i + 1] - peaks[i]) >= 2 * fs

(* C7 witness: two peaks exactly 0.4 * fs apart, both kept (fs = 360, 144  *)
(* samples)                                                                *)
C7_Witness ==
    /\ Segmented
    /\ fs = 360
    /\ Len(peaks) = 2
    /\ peaks[2] - peaks[1] = 144

(* The result of accepting the candidates greedily from left to right: a   *)
(* candidate is accepted iff it is at least 0.4 * f after the last         *)
(* accepted one.                                                           *)
RECURSIVE LeftToRight(_, _, _, _)
LeftToRight(s, i, acc, f) ==
    IF i > Len(s) THEN acc
    ELSE IF acc = <<>> \/ 5 * (s[i] - acc[Len(acc)]) >= 2 * f
         THEN LeftToRight(s, i + 1, Append(acc, s[i]), f)
         ELSE LeftToRight(s, i + 1, acc, f)

DistinctHeights ==
    \A p \in candidates, q \in candidates :
        p # q => Sample(filtered_ecg, p) # Sample(filtered_ecg, q)

(* C8 as stated: the accepted peaks are those a greedy left-to-right scan  *)
(* of the candidates accepts, so of conflicting candidates the earliest is *)
(* kept, not the tallest.  Stated for candidates of pairwise different     *)
(* heights, where the order in which equal heights are visited plays no    *)
(* part.                                                                   *)
C8_GreedyLeftToRight ==
    (Segmented /\ DistinctHeights) => peaks = LeftToRight(SetToSeq(candidates), 1, <<>>, fs)

TooClose(p, q) == p # q /\ 5 * Abs(p - q) < 2 * fs

(* C8 amended: acceptance goes by height, not by position.  The accepted   *)
(* peaks are candidates no two of which are closer than 0.4 * fs; every    *)
(* discarded candidate is closer than that to an accepted peak at least as *)
(* high as itself; and a candidate higher than every other candidate       *)
(* closer than 0.4 * fs to it is accepted, wherever it lies.               *)
C8_TallestFirst ==
    Segmented =>
        /\ Elems(peaks) \subseteq candidates
        /\ \A p \in Elems(peaks), q \in Elems(peaks) : ~TooClose(p, q)
        /\ \A c \in candidates \ Elems(peaks) :
             \E k \in Elems(peaks) :
                 TooClose(c, k) /\ Sample(filtered_ecg, k) >= Sample(filtered_ecg, c)
        /\ \A c \in candidates :
             (\A q \in candidates :
                 TooClose(c, q) => Sample(filtered_ecg, q) < Sample(filtered_ecg, c))
             => c \in Elems(peaks)

(* C8 witness: an earlier candidate was discarded for a later, higher one *)
C8_Witness ==
    /\ Segmented
    /\ \E c \in candidates \ Elems(peaks) :
         \E k \in Elems(peaks) :
             /\ k > c
             /\ TooClose(c, k)
             /\ Sample(filtered_ecg, k) > Sample(filtered_ecg, c)
             /\ \A q \in candidates : q >= c

(* C9: a detected peak p of a signal of L samples is retained iff its      *)
(* window [p - 180, p + 180) lies inside [0, L), that is iff p >= 180 and  *)
(* p + 180 <= L.                                                           *)
C9_ExactBounds ==
    Segmented =>
        \A p \in Elems(peaks) :
            (p \in Elems(peak_indices)) <=> (p >= 180 /\ p + 180 <= filtered_ecg.len)

(* C10: every window the segmenter returns is exactly 360 samples long and *)
(* lies inside the filtered signal, around its peak; windows and peak      *)
(* indices correspond one to one, in ascending order of the peaks.         *)
C10_Windows ==
    Segmented =>
        /\ Len(segments) = Len(peak_indices)
        /\ StrictlyAscending(peak_indices)
        /\ Elems(peak_indices) \subseteq Elems(peaks)
        /\ \A i \in 1 .. Len(segments) :
             /\ segments[i].len = 360
             /\ segments[i].start = peak_indices[i] - 180
             /\ segments[i].start >= 0
             /\ segments[i].start + segments[i].len <= filtered_ecg.len

(* C10 witness: nine windows returned for ten peaks, the first peak being  *)
(* too near the start of the signal                                        *)
C10_Witness ==
    /\ Segmented
    /\ Len(peaks) = 10
    /\ Len(segments) = 9
    /\ peak_indices[1] = peaks[2]

ImageProcessed == op = "process_image" /\ outcome = "returned"

ConstantRaw == \A i \in 1 .. Len(signal_raw) : signal_raw[i] = signal_raw[1]

(* C11: for every decodable image process_image returns exactly           *)
(* target_points samples; every sample lies in [-1, 1], unless the        *)
(* per-column sequence is constant, and then the output is exactly flat   *)
(* (every sample the value of the columns).                               *)
C11_LengthAndRange ==
    ImageProcessed =>
        /\ Len(signal_resampled.nums) = target_points
        /\ signal_resampled.den > 0
        /\ IF ConstantRaw
           THEN \A k \in 1 .. Len(signal_resampled.nums) :
                    signal_resampled.nums[k] * Scale(cleaned.h)
                        = signal_raw[1] * signal_resampled.den
           ELSE \A k \in 1 .. Len(signal_resampled.nums) :
                    /\ -signal_resampled.den <= signal_resampled.nums[k]
                    /\ signal_resampled.nums[k] <= signal_resampled.den

(* C11 witness: 2500 samples returned for an image of three columns whose *)
(* values differ; the first sample is -1 or 1 and some sample lies        *)
(* strictly between                                                       *)
C11_Witness ==
    /\ ImageProcessed
    /\ target_points = 2500
    /\ cleaned.w = 3
    /\ ~ConstantRaw
    /\ Abs(signal_resampled.nums[1]) = signal_resampled.den
    /\ \E k \in 1 .. 2500 : Abs(signal_resampled.nums[k]) < signal_resampled.den

ForegroundRows(x) == { y \in 0 .. (cleaned.h - 1) : <<x, y>> \in cleaned.fg }

----------------------------------------------------------------------------
(* /api/analyze *)

Unsupported(e) == ~IsJson(e) /\ ~IsImage(e)

InvalidUpload(u) == Unsupported(u.ext) \/ (IsJson(u.ext) /\ u.body = "json_no_signal")

(* C14: an upload with none of the supported extensions, and a .json upload *)
(* whose object has no 'signal' key, are answered with status 400 (not 500)  *)
(* and never reach inference.                                                *)
C14_InvalidUpload400 ==
    (Responded /\ InvalidUpload(upload)) => (status = 400 /\ op # "predict")

----------------------------------------------------------------------------
(* /api/feedback *)

Stored(id) == \E n \in DOMAIN files : files[n].id = id

(* C15: every submission acknowledged with status "success" stays stored in *)
(* a file of its own, whatever is submitted after it.                       *)
C15_AckedStaysStored == \A id \in acked : Stored(id)

----------------------------------------------------------------------------
(* Concurrent requests *)

(* C12: whatever the interleaving of the requests, predict and process_image *)
(* leave the shared service and processor as they were constructed, and the  *)
(* report of every finished request is the one the request gets when it runs *)
(* alone.                                                                    *)
C12_NoInterference ==
    /\ model = loaded
    /\ target_points = DefaultTargetPoints
    /\ \A r \in Requests :
         rq[r].pc = "done" =>
             rq[r].report = ReportAlone(rq[r].input, loaded, DefaultTargetPoints)

(* Two requests overtook each other, both went through the classifier and *)
(* got different reports                                                  *)
C12_Witness ==
    \E r, o \in Requests :
        /\ r # o
        /\ rq[r].pc = "done" /\ rq[o].pc = "done"
        /\ rq[r].overlapped /\ rq[o].overlapped
        /\ rq[r].classes # <<>> /\ rq[o].classes # <<>>
        /\ rq[r].input.kind = "json" /\ rq[o].input.kind = "image"
        /\ rq[r].report.abnormalBeats # rq[o].report.abnormalBeats

====
